---- MODULE Spec2Model ----
(***************************************************************************)
(* QWebKitView: the Adapter Widget (a QWidget around a WKWebView), its     *)
(* Relay Delegate _QWebKitViewObserver, its proxies QWebKitPage,           *)
(* QWebKitSettings and QWebKitProfile, the operations of the host on them, *)
(* and the native engine that calls the Relay Delegate back.               *)
(*                                                                         *)
(* The widget's handlers run to completion on the main thread, and a Qt    *)
(* signal's slots run synchronously inside emit(), so a handler is a       *)
(* function from the widget's state (a record, see Widget) to its state    *)
(* after the handler, slots included; an action applies one handler and    *)
(* stores the result.                                                      *)
(*                                                                         *)
(* WKWebView is not part of the repository. It is modelled at the calls    *)
(* the widget makes on it and the callbacks it makes on the Relay          *)
(* Delegate: a navigation is requested, starts (provisional), commits, and *)
(* ends with one terminal callback; a request made while a navigation is   *)
(* in flight cancels that navigation, whose failure callback comes before  *)
(* the new navigation's start (one notification sequence per navigation,   *)
(* non-overlapping); estimatedProgress only grows within a navigation and  *)
(* falls back to its initial value for the next one, either at once when   *)
(* the request is made or when the navigation starts.                      *)
(***************************************************************************)
EXTENDS Integers, Sequences, FiniteSets, TLC

VARIABLES
    _should_emit_progress, \* QWebKitView._should_emit_progress, the progress gate
    wkvAlive,             \* the widget exists: _QWebKitViewObserver._wkv's referent
    navigationDelegate,   \* the engine's navigationDelegate: "observer" or "none"
    kvoObserver,          \* the Relay Delegate observes "estimatedProgress"
    nav,                  \* the engine's navigation: idle, pending, provisional, committed
    owed,                 \* the failure callback the engine owes a cancelled navigation
    estimatedProgress,    \* WKWebView.estimatedProgress, in units of 1/PDenom
    URL,                  \* WKWebView.URL: None, or the text of the engine's URL
    wvAlive,              \* the WKWebView exists: QWebKitPage._wv's referent
    evaluations,          \* the completion handlers of the evaluations in progress
    trace,                \* the signals emitted so far (the first MaxTrace of them)
    unfinished,           \* the last of loadStarted/loadFinished emitted is loadStarted
    startedLast,          \* the last navigation event to complete is a start notification
    lastCall              \* the last operation: what it was, emitted, called and raised

vars == <<_should_emit_progress, wkvAlive, navigationDelegate, kvoObserver, nav, owed,
          estimatedProgress, URL, wvAlive, evaluations, trace, unfinished, startedLast,
          lastCall>>

engineVars == <<nav, owed, estimatedProgress, URL, wvAlive, evaluations>>

(***************************************************************************)
(* Bounds                                                                  *)
(***************************************************************************)
\* the emissions the history keeps; later emissions still happen
MaxTrace == 3

\* the script evaluations in progress at a time
MaxEvaluations == 2

\* estimatedProgress is a double p of 0..1; the model takes the fractions
\* p = estimatedProgress / PDenom with PDenom = 2^PBits, which are doubles, and
\* whose product with 100 is exact in double arithmetic
PBits == 10

PDenom == 2 ^ PBits

\* WebKit's initial estimate of a navigation, 0.1
InitialProgress == (PDenom + 9) \div 10

\* the values the engine's estimate takes in a navigation: nothing, initial,
\* almost done, done
ProgressValues == {0, InitialProgress, PDenom - 1, PDenom}

None == <<"None">>

\* the argument recorded for a callback invoked directly, not by the engine
Late == <<"late">>

\* the text of the QUrl handed to load(), as a sequence of characters
Addresses == { <<"h", ":", "a">>, <<"h", " ", "a">>, <<"h", ":", "^">> }

\* characters no URL holds
IllegalChars == {" ", "^"}

\* what a slot connected to loadStarted does: print (the test's slot), or call stop()
Slots == {"print", "stop"}

KeyPaths == {"estimatedProgress", "title"}

\* the scripts handed to runJavaScript
Scripts == {"1 + 1", "throw 0"}

\* the result callbacks handed to runJavaScript; None is no callback
Callbacks == {<<"callback">>, <<"other">>, None}

\* what an evaluation completes with: a result or None, and an error or None
Results == {<<"2">>, None}

ScriptErrors == {<<"WKErrorJavaScriptExceptionOccurred">>, None}

\* QWebKitSettings.WebAttribute
WebAttribute == {"FocusOnNavigationEnabled"}

\* the strings handed to the profile proxy
Strings == {"", "agent"}

\* the NSError of a failed navigation, by its code
Errors == {<<"NSURLErrorCancelled">>, <<"NSURLErrorTimedOut">>}

\* the error of a navigation that a later request cancelled
Cancelled == <<"NSURLErrorCancelled">>

(***************************************************************************)
(* Signals                                                                 *)
(***************************************************************************)
loadStarted == [sig |-> "loadStarted"]

loadProgress(percent) == [sig |-> "loadProgress", percent |-> percent]

\* `by` is the cause of the emission, kept for the history only
loadFinished(ok, by) == [sig |-> "loadFinished", ok |-> ok, by |-> by]

(***************************************************************************)
(* The widget as its handlers see it                                       *)
(***************************************************************************)
Widget ==
    [gate |-> _should_emit_progress, alive |-> wkvAlive, trace |-> trace,
     unfinished |-> unfinished, emitted |-> <<>>, native |-> <<>>,
     raised |-> "none", stderr |-> "none", ret |-> None, called |-> <<>>,
     armedAtFinished |-> FALSE]

\* pyqtSignal.emit: the signal reaches its slots before emit returns;
\* armedAtFinished keeps whether a loadFinished reached its slots with the gate armed
Emit(w, e) ==
    [w EXCEPT !.emitted = Append(@, e),
              !.armedAtFinished = @ \/ (e.sig = "loadFinished" /\ w.gate),
              !.trace = IF Len(@) < MaxTrace THEN Append(@, e) ELSE @,
              !.unfinished = IF e.sig = "loadStarted" THEN TRUE
                             ELSE IF e.sig = "loadFinished" THEN FALSE ELSE @]

\* a call of a WKWebView method
Native(w, method) == [w EXCEPT !.native = Append(@, method)]

\* QUrl(text), and the default QUrl()
QUrl(text) == <<"QUrl">> \o text

EmptyQUrl == <<"QUrl">>

\* NSURL.URLWithString_: None for a string that is no URL
URLWithString(s) ==
    IF \E i \in 1..Len(s) : s[i] \in IllegalChars THEN None ELSE s

\* the percentage rounded to the nearest integer, as round(p * 100) would
IntPercent_Rounded(p) == (p * 100 + PDenom \div 2) \div PDenom

\* int(p * 100): the percentage, truncated
IntPercent(p) == (p * 100) \div PDenom

\* stop() doing nothing unless a navigation was started and has not finished
stop_OnlyWhenLoading(w) ==
    IF w.unfinished
    THEN Emit([Native(w, "stopLoading") EXCEPT !.gate = FALSE],
              loadFinished(FALSE, "stop"))
    ELSE w

\* QWebKitView.stop
stop(w) ==
    Emit([Native(w, "stopLoading") EXCEPT !.gate = FALSE], loadFinished(FALSE, "stop"))

\* reload() disarming the progress gate as stop() does
reload_Disarming(w) == [Native(w, "reload") EXCEPT !.gate = FALSE]

\* QWebKitView.reload
reload(w) == Native(w, "reload")

\* QWebKitView.forward
forward(w) == Native(w, "goForward")

\* QWebKitView.back
back(w) == Native(w, "goBack")

\* QWebKitSettings.setAttribute raising for the attribute it does not implement
setAttribute_Raising(w, attr, on) == [w EXCEPT !.raised = "NotImplementedError"]

\* QWebKitSettings.setAttribute
setAttribute(w, attr, on) ==
    [w EXCEPT !.stderr = "Warning: QWebKitSettings.setAttribute is not implemented"]

\* QWebKitProfile.setHttpUserAgent
setHttpUserAgent(w, userAgent) ==
    [w EXCEPT !.stderr = "Warning: QWebKitProfile.setHttpUserAgent is not implemented"]

\* QWebKitProfile.setProperty
setProperty(w, p_str, value) ==
    [w EXCEPT !.stderr = "Warning: QWebKitProfile.setProperty is not implemented"]

\* a call of a callable of the host
Call(w, callback, value) == [w EXCEPT !.called = Append(@, <<callback, value>>)]

\* QWebKitPage._callback handing the result to the callback whatever the error is
_callback_ResultAlways(w, result, error, callback) ==
    IF callback # None THEN Call(w, callback, result) ELSE w

\* QWebKitPage._callback
_callback(w, result, error, callback) ==
    IF callback # None
    THEN IF error = None THEN Call(w, callback, result) ELSE Call(w, callback, error)
    ELSE w

\* QWebKitPage.runJavaScript: the completion handler it hands to the engine is
\* kept in evaluations by the action
runJavaScript(w, scriptSource, resultCallback) ==
    IF wvAlive THEN Native(w, "evaluateJavaScript_completionHandler_") ELSE w

\* QWebKitPage.url reading the engine's URL without testing for it
QWebKitPage_url_Unguarded(w) ==
    IF wvAlive /\ URL # None
    THEN [w EXCEPT !.ret = QUrl(URL)]
    ELSE [w EXCEPT !.raised = "AttributeError"]

\* QWebKitPage.url: self._wv() is None once the WKWebView is gone
QWebKitPage_url(w) ==
    [w EXCEPT !.ret = IF wvAlive /\ URL # None THEN QUrl(URL) ELSE EmptyQUrl]

\* QWebKitView.url
url(w) == QWebKitPage_url(w)

\* a slot connected to loadStarted, run inside emit()
RunSlot(w, slot) == IF slot = "stop" THEN stop(w) ELSE w

\* QWebKitView._started_provisional_navigation
_started_provisional_navigation(w, slot) ==
    [RunSlot(Emit(w, loadStarted), slot) EXCEPT !.gate = TRUE]

\* _finished_navigation leaving the gate as it is
_finished_navigation_Armed(w) == Emit(w, loadFinished(TRUE, "finish"))

\* QWebKitView._finished_navigation
_finished_navigation(w) ==
    Emit([w EXCEPT !.gate = FALSE], loadFinished(TRUE, "finish"))

\* _failed_navigation reporting a cancelled navigation as a success
_failed_navigation_ByError(w, error) ==
    Emit([w EXCEPT !.gate = FALSE], loadFinished(error = Cancelled, "fail"))

\* QWebKitView._failed_navigation
_failed_navigation(w, error) ==
    Emit([w EXCEPT !.gate = FALSE], loadFinished(FALSE, "fail"))

\* _failed_provisional_navigation emitting before it disarms the gate
_failed_provisional_navigation_EmitFirst(w, error) ==
    [Emit(w, loadFinished(FALSE, "failProvisional")) EXCEPT !.gate = FALSE]

\* QWebKitView._failed_provisional_navigation
_failed_provisional_navigation(w, error) ==
    Emit([w EXCEPT !.gate = FALSE], loadFinished(FALSE, "failProvisional"))

\* QWebKitView._progress_changed
_progress_changed(w, keyPath, p) ==
    IF keyPath = "estimatedProgress" /\ w.gate
    THEN Emit(w, loadProgress(IntPercent(p)))
    ELSE w

\* `if self._wkv:` on a weakref.proxy: the truth value of a dead proxy raises
\* ReferenceError, that of a live one is True
Forward(w, handled) ==
    IF w.alive THEN handled ELSE [w EXCEPT !.raised = "ReferenceError"]

\* _QWebKitViewObserver.webView_didStartProvisionalNavigation_
webView_didStartProvisionalNavigation_(w, slot) ==
    Forward(w, _started_provisional_navigation(w, slot))

\* _QWebKitViewObserver.webView_didFinishNavigation_
webView_didFinishNavigation_(w) == Forward(w, _finished_navigation(w))

\* _QWebKitViewObserver.webView_didFailNavigation_withError_
webView_didFailNavigation_withError_(w, error) ==
    Forward(w, _failed_navigation(w, error))

\* _QWebKitViewObserver.webView_didFailProvisionalNavigation_withError_
webView_didFailProvisionalNavigation_withError_(w, error) ==
    Forward(w, _failed_provisional_navigation(w, error))

\* _QWebKitViewObserver.observeValueForKeyPath_ofObject_change_context_
observeValueForKeyPath_ofObject_change_context_(w, keyPath, p) ==
    Forward(w, _progress_changed(w, keyPath, p))

\* the navigation events: the notifications the widget handles, and stop()
NavigationEvents ==
    {"webView_didStartProvisionalNavigation_", "webView_didFinishNavigation_",
     "webView_didFailNavigation_withError_",
     "webView_didFailProvisionalNavigation_withError_", "stop"}

\* the widget after an operation, and the operation's record
Commit(w, op, arg) ==
    /\ _should_emit_progress' = w.gate
    /\ trace' = w.trace
    /\ unfinished' = w.unfinished
    /\ startedLast' = IF op \in NavigationEvents /\ w.raised = "none"
                      THEN op = "webView_didStartProvisionalNavigation_"
                      ELSE startedLast
    /\ lastCall' = [op |-> op, arg |-> arg, emitted |-> w.emitted, native |-> w.native,
                    raised |-> w.raised, stderr |-> w.stderr, ret |-> w.ret,
                    called |-> w.called, armedAtFinished |-> w.armedAtFinished]

(***************************************************************************)
(* The initial state: QWebKitView.__init__ has returned                    *)
(***************************************************************************)
Init ==
    /\ _should_emit_progress = FALSE
    /\ wkvAlive = TRUE
    /\ navigationDelegate = "observer"
    /\ kvoObserver = TRUE
    /\ nav = "idle"
    /\ owed = "none"
    /\ estimatedProgress = 0
    /\ URL = None
    /\ wvAlive = TRUE
    /\ evaluations = <<>>
    /\ trace = <<>>
    /\ unfinished = FALSE
    /\ startedLast = FALSE
    /\ lastCall = [op |-> "__init__", arg |-> None, emitted |-> <<>>,
                   native |-> <<"setNavigationDelegate_", "addObserver">>,
                   raised |-> "none", stderr |-> "none", ret |-> None, called |-> <<>>,
     armedAtFinished |-> FALSE]

(***************************************************************************)
(* The native engine, at the calls the widget makes and the callbacks it   *)
(* delivers                                                                *)
(***************************************************************************)
Detached == ~kvoObserver /\ navigationDelegate = "none"

\* a key-value notification of estimatedProgress = p reaches the registered observer
NotifyProgress(w, p) ==
    IF kvoObserver
    THEN observeValueForKeyPath_ofObject_change_context_(w, "estimatedProgress", p)
    ELSE w

\* the name of the operation a callback of the engine runs: the Relay Delegate's
\* method when it is registered, nothing of the repository otherwise
Delivered(registered, method) == IF registered THEN method ELSE "engine"

(***************************************************************************)
(* Operations of the host on the widget                                    *)
(***************************************************************************)
\* the engine takes a request to navigate, made by operation op of the widget: the
\* request cancels a navigation in flight, and the estimate falls back to its
\* initial value at once or at the start
Request(w, op, arg) ==
    \E sync \in BOOLEAN :
        LET p == IF sync THEN InitialProgress ELSE estimatedProgress
        IN  /\ nav' = "pending"
            /\ owed' = IF nav = "provisional" THEN "failProvisional"
                       ELSE IF nav = "committed" THEN "fail" ELSE owed
            /\ estimatedProgress' = p
            /\ Commit(IF p # estimatedProgress THEN NotifyProgress(w, p) ELSE w, op, arg)
            /\ UNCHANGED <<wkvAlive, wvAlive, evaluations, navigationDelegate,
                           kvoObserver>>

\* WKWebView.loadRequest_, as load() calls it
LoadRequest(address) ==
    /\ Request(Native(Widget, "loadRequest_"), "load", address)
    /\ URL' = URLWithString(address)

\* the engine at reload, goForward or goBack: it navigates when it has a page to
\* go to, and does nothing otherwise
PassThrough(w, op) ==
    \E navigates \in BOOLEAN :
        IF navigates /\ URL # None
        THEN Request(w, op, None) /\ UNCHANGED URL
        ELSE /\ Commit(w, op, None)
             /\ UNCHANGED <<wkvAlive, navigationDelegate, kvoObserver, engineVars>>

\* load() without its test of the parsed URL
Load_Unchecked(address) == wkvAlive /\ LoadRequest(address)

\* QWebKitView.load
Load(address) ==
    /\ wkvAlive
    /\ IF URLWithString(address) = None
       THEN /\ Commit([Widget EXCEPT !.stderr = "Error: invalid url"], "load", address)
            /\ UNCHANGED <<wkvAlive, navigationDelegate, kvoObserver, engineVars>>
       ELSE LoadRequest(address)

\* QWebKitView.stop, called by the host
Stop ==
    /\ wkvAlive
    /\ Commit(stop(Widget), "stop", None)
    /\ UNCHANGED <<wkvAlive, navigationDelegate, kvoObserver, engineVars>>

\* QWebKitView.reload, called by the host
Reload == wkvAlive /\ PassThrough(reload(Widget), "reload")

\* QWebKitView.forward, called by the host
GoForward == wkvAlive /\ PassThrough(forward(Widget), "forward")

\* QWebKitView.back, called by the host
GoBack == wkvAlive /\ PassThrough(back(Widget), "back")

\* QWebKitView.settings().setAttribute(attr, on)
SetAttribute ==
    /\ wkvAlive
    /\ \E attr \in WebAttribute, on \in BOOLEAN :
         Commit(setAttribute(Widget, attr, on), "setAttribute", None)
    /\ UNCHANGED <<wkvAlive, navigationDelegate, kvoObserver, engineVars>>

\* QWebKitView.page().profile().setHttpUserAgent(userAgent)
SetHttpUserAgent ==
    /\ wkvAlive
    /\ \E userAgent \in Strings :
         Commit(setHttpUserAgent(Widget, userAgent), "setHttpUserAgent", None)
    /\ UNCHANGED <<wkvAlive, navigationDelegate, kvoObserver, engineVars>>

\* QWebKitView.page().profile().setProperty(p_str, value)
SetProperty ==
    /\ wkvAlive
    /\ \E p_str \in Strings, value \in BOOLEAN :
         Commit(setProperty(Widget, p_str, value), "setProperty", None)
    /\ UNCHANGED <<wkvAlive, navigationDelegate, kvoObserver, engineVars>>

\* QWebKitView.url, called by the host
Url ==
    /\ wkvAlive
    /\ Commit(url(Widget), "url", None)
    /\ UNCHANGED <<wkvAlive, navigationDelegate, kvoObserver, engineVars>>

\* QWebKitPage.url, called by the host on the proxy page() returned, which can
\* outlive the widget
PageUrl ==
    /\ Commit(QWebKitPage_url(Widget), "page.url", None)
    /\ UNCHANGED <<wkvAlive, navigationDelegate, kvoObserver, engineVars>>

\* QWebKitPage.runJavaScript, called by the host on the proxy page() returned
RunJavaScript ==
    /\ Len(evaluations) < MaxEvaluations
    /\ \E scriptSource \in Scripts, resultCallback \in Callbacks :
         /\ evaluations' = IF wvAlive THEN Append(evaluations, resultCallback)
                           ELSE evaluations
         /\ Commit(runJavaScript(Widget, scriptSource, resultCallback), "runJavaScript",
                   resultCallback)
    /\ UNCHANGED <<wkvAlive, navigationDelegate, kvoObserver, nav, owed,
                   estimatedProgress, URL, wvAlive>>

\* the engine completes an evaluation: it calls the completion handler, the lambda
\* of runJavaScript, once
EvaluationCompletes ==
    /\ \E i \in 1..Len(evaluations), result \in Results, error \in ScriptErrors :
         /\ evaluations' = [j \in 1..(Len(evaluations) - 1) |->
                              IF j < i THEN evaluations[j] ELSE evaluations[j + 1]]
         /\ Commit(_callback(Widget, result, error, evaluations[i]), "completionHandler",
                   <<evaluations[i], result, error>>)
    /\ UNCHANGED <<wkvAlive, navigationDelegate, kvoObserver, nav, owed,
                   estimatedProgress, URL, wvAlive>>

\* QWebKitView.closeEvent: removing an observer that is not registered raises
CloseEvent ==
    /\ wkvAlive
    /\ IF kvoObserver
       THEN /\ kvoObserver' = FALSE
            /\ navigationDelegate' = "none"
            /\ Commit(Native(Native(Widget, "removeObserver_forKeyPath_"),
                             "setNavigationDelegate_"), "closeEvent", None)
       ELSE /\ Commit([Native(Widget, "removeObserver_forKeyPath_")
                          EXCEPT !.raised = "objc.error"], "closeEvent", None)
            /\ UNCHANGED <<kvoObserver, navigationDelegate>>
    /\ UNCHANGED <<wkvAlive, engineVars>>

\* the widget is destroyed: the referent of the Relay Delegate's weak proxy is gone
Destroy ==
    /\ wkvAlive
    /\ wkvAlive' = FALSE
    /\ lastCall' = [op |-> "destroy", arg |-> None, emitted |-> <<>>, native |-> <<>>,
                    raised |-> "none", stderr |-> "none", ret |-> None, called |-> <<>>,
     armedAtFinished |-> FALSE]
    /\ UNCHANGED <<_should_emit_progress, navigationDelegate, kvoObserver, engineVars,
                   trace, unfinished, startedLast>>

\* the WKWebView is released after the widget that held it: the referent of
\* QWebKitPage._wv is gone, and the engine makes no further step
Release ==
    /\ ~wkvAlive /\ wvAlive
    /\ wvAlive' = FALSE
    /\ lastCall' = [op |-> "release", arg |-> None, emitted |-> <<>>, native |-> <<>>,
                    raised |-> "none", stderr |-> "none", ret |-> None, called |-> <<>>,
     armedAtFinished |-> FALSE]
    /\ UNCHANGED <<_should_emit_progress, wkvAlive, navigationDelegate, kvoObserver, nav,
                   owed, estimatedProgress, URL, evaluations, trace, unfinished,
                   startedLast>>

(***************************************************************************)
(* Steps of the engine, each delivering its callback to the Relay Delegate *)
(* while that is registered                                                *)
(***************************************************************************)
\* the requested navigation starts
EngineStart ==
    /\ wvAlive
    /\ nav = "pending" /\ owed = "none" /\ estimatedProgress = InitialProgress
    /\ nav' = "provisional"
    /\ \E slot \in Slots :
         Commit(IF navigationDelegate = "observer"
                THEN webView_didStartProvisionalNavigation_(Widget, slot) ELSE Widget,
                Delivered(navigationDelegate = "observer",
                          "webView_didStartProvisionalNavigation_"), None)
    /\ UNCHANGED <<wkvAlive, wvAlive, URL, evaluations, navigationDelegate, kvoObserver,
                   owed, estimatedProgress>>

\* the estimate falls back to its initial value before the navigation starts
EngineResetProgress ==
    /\ wvAlive
    /\ nav = "pending" /\ owed = "none" /\ estimatedProgress # InitialProgress
    /\ estimatedProgress' = InitialProgress
    /\ Commit(NotifyProgress(Widget, InitialProgress),
              Delivered(kvoObserver, "observeValueForKeyPath_ofObject_change_context_"),
              None)
    /\ UNCHANGED <<wkvAlive, wvAlive, URL, evaluations, navigationDelegate, kvoObserver,
                   nav, owed>>

\* the estimate grows while the navigation is in flight
EngineProgress ==
    /\ wvAlive
    /\ nav \in {"provisional", "committed"}
    /\ \E p \in ProgressValues :
         /\ p > estimatedProgress
         /\ estimatedProgress' = p
         /\ Commit(NotifyProgress(Widget, p),
                   Delivered(kvoObserver,
                             "observeValueForKeyPath_ofObject_change_context_"), None)
    /\ UNCHANGED <<wkvAlive, wvAlive, URL, evaluations, navigationDelegate, kvoObserver,
                   nav, owed>>

\* the navigation commits: the Relay Delegate implements no callback for it
EngineCommit ==
    /\ wvAlive
    /\ nav = "provisional"
    /\ nav' = "committed"
    /\ Commit(Widget, "engine", None)
    /\ UNCHANGED <<wkvAlive, wvAlive, URL, evaluations, navigationDelegate, kvoObserver,
                   owed, estimatedProgress>>

EngineFinish ==
    /\ wvAlive
    /\ nav = "committed"
    /\ nav' = "idle"
    /\ Commit(IF navigationDelegate = "observer"
              THEN webView_didFinishNavigation_(Widget) ELSE Widget,
              Delivered(navigationDelegate = "observer", "webView_didFinishNavigation_"),
              None)
    /\ UNCHANGED <<wkvAlive, wvAlive, URL, evaluations, navigationDelegate, kvoObserver,
                   owed, estimatedProgress>>

EngineFail ==
    /\ wvAlive
    /\ nav = "committed"
    /\ nav' = "idle"
    /\ \E error \in Errors :
         Commit(IF navigationDelegate = "observer"
                THEN webView_didFailNavigation_withError_(Widget, error) ELSE Widget,
                Delivered(navigationDelegate = "observer",
                          "webView_didFailNavigation_withError_"), error)
    /\ UNCHANGED <<wkvAlive, wvAlive, URL, evaluations, navigationDelegate, kvoObserver,
                   owed, estimatedProgress>>

EngineFailProvisional ==
    /\ wvAlive
    /\ nav = "provisional"
    /\ nav' = "idle"
    /\ \E error \in Errors :
         Commit(IF navigationDelegate = "observer"
                THEN webView_didFailProvisionalNavigation_withError_(Widget, error)
                ELSE Widget,
                Delivered(navigationDelegate = "observer",
                          "webView_didFailProvisionalNavigation_withError_"), error)
    /\ UNCHANGED <<wkvAlive, wvAlive, URL, evaluations, navigationDelegate, kvoObserver,
                   owed, estimatedProgress>>

\* the failure of the navigation a later request cancelled
EngineCancel ==
    /\ wvAlive
    /\ owed # "none"
    /\ owed' = "none"
    /\ Commit(IF navigationDelegate # "observer" THEN Widget
              ELSE IF owed = "fail"
              THEN webView_didFailNavigation_withError_(Widget, Cancelled)
              ELSE webView_didFailProvisionalNavigation_withError_(Widget, Cancelled),
              Delivered(navigationDelegate = "observer",
                        IF owed = "fail" THEN "webView_didFailNavigation_withError_"
                        ELSE "webView_didFailProvisionalNavigation_withError_"),
              Cancelled)
    /\ UNCHANGED <<wkvAlive, wvAlive, URL, evaluations, navigationDelegate, kvoObserver,
                   nav, estimatedProgress>>

(***************************************************************************)
(* Late callbacks: a method of the Relay Delegate invoked directly after   *)
(* closeEvent has detached it                                              *)
(***************************************************************************)
LateStart ==
    /\ Detached
    /\ \E slot \in Slots :
         Commit(webView_didStartProvisionalNavigation_(Widget, slot),
                "webView_didStartProvisionalNavigation_", Late)
    /\ UNCHANGED <<wkvAlive, navigationDelegate, kvoObserver, engineVars>>

LateFinish ==
    /\ Detached
    /\ Commit(webView_didFinishNavigation_(Widget), "webView_didFinishNavigation_", Late)
    /\ UNCHANGED <<wkvAlive, navigationDelegate, kvoObserver, engineVars>>

LateFail ==
    /\ Detached
    /\ \E error \in Errors :
         Commit(webView_didFailNavigation_withError_(Widget, error),
                "webView_didFailNavigation_withError_", Late)
    /\ UNCHANGED <<wkvAlive, navigationDelegate, kvoObserver, engineVars>>

LateFailProvisional ==
    /\ Detached
    /\ \E error \in Errors :
         Commit(webView_didFailProvisionalNavigation_withError_(Widget, error),
                "webView_didFailProvisionalNavigation_withError_", Late)
    /\ UNCHANGED <<wkvAlive, navigationDelegate, kvoObserver, engineVars>>

LateObserve ==
    /\ Detached
    /\ \E keyPath \in KeyPaths :
         Commit(observeValueForKeyPath_ofObject_change_context_(Widget, keyPath,
                                                                estimatedProgress),
                "observeValueForKeyPath_ofObject_change_context_", Late)
    /\ UNCHANGED <<wkvAlive, navigationDelegate, kvoObserver, engineVars>>

EngineTerminal == EngineFinish \/ EngineFail \/ EngineFailProvisional \/ EngineCancel

Next ==
    \/ \E address \in Addresses : Load(address)
    \/ Stop
    \/ CloseEvent
    \/ Destroy
    \/ EngineStart
    \/ EngineResetProgress
    \/ EngineProgress
    \/ EngineCommit
    \/ EngineFinish
    \/ EngineFail
    \/ EngineFailProvisional
    \/ EngineCancel
    \/ LateStart
    \/ LateFinish
    \/ LateFail
    \/ LateFailProvisional
    \/ LateObserve

Spec == Init /\ [][Next]_vars

\* the engine delivers what it owes: a requested navigation starts, and a
\* navigation in flight ends with its terminal notification
FairSpec ==
    /\ Spec
    /\ WF_vars(EngineStart)
    /\ WF_vars(EngineResetProgress)
    /\ WF_vars(EngineTerminal)

(***************************************************************************)
(* The host's other operations (the pass-through calls, the proxies and    *)
(* url()) around the navigations the engine runs: the operations of Spec   *)
(* without the callbacks invoked after detachment, and these               *)
(***************************************************************************)
HostNext ==
    \/ \E address \in Addresses : Load(address)
    \/ Stop
    \/ Reload
    \/ GoForward
    \/ GoBack
    \/ SetAttribute
    \/ SetHttpUserAgent
    \/ SetProperty
    \/ Url
    \/ PageUrl
    \/ CloseEvent
    \/ Destroy
    \/ Release
    \/ EngineStart
    \/ EngineResetProgress
    \/ EngineProgress
    \/ EngineCommit
    \/ EngineFinish
    \/ EngineFail
    \/ EngineFailProvisional
    \/ EngineCancel

HostSpec == Init /\ [][HostNext]_vars

(***************************************************************************)
(* Script evaluations: the host calls runJavaScript on the Page proxy,     *)
(* before and after the widget and the WKWebView are gone, and the engine  *)
(* completes the evaluations                                               *)
(***************************************************************************)
ScriptNext ==
    \/ RunJavaScript
    \/ EvaluationCompletes
    \/ Destroy
    \/ Release

ScriptSpec == Init /\ [][ScriptNext]_vars

(***************************************************************************)
(* The percentage of every estimate: the widget at any estimate of 0..1,   *)
(* before a navigation (gate disarmed) or inside one (gate armed), and the *)
(* engine notifying the observer of its estimate                           *)
(***************************************************************************)
ProgressInit ==
    /\ estimatedProgress \in 0..PDenom
    /\ _should_emit_progress \in BOOLEAN
    /\ wkvAlive = TRUE
    /\ navigationDelegate = "observer"
    /\ kvoObserver = TRUE
    /\ nav = IF _should_emit_progress THEN "provisional" ELSE "idle"
    /\ owed = "none"
    /\ URL = IF _should_emit_progress THEN <<"h", ":", "a">> ELSE None
    /\ wvAlive = TRUE
    /\ evaluations = <<>>
    /\ trace = IF _should_emit_progress THEN <<loadStarted>> ELSE <<>>
    /\ unfinished = _should_emit_progress
    /\ startedLast = _should_emit_progress
    /\ lastCall = [op |-> "__init__", arg |-> None, emitted |-> <<>>,
                   native |-> <<"setNavigationDelegate_", "addObserver">>,
                   raised |-> "none", stderr |-> "none", ret |-> None, called |-> <<>>,
     armedAtFinished |-> FALSE]

\* a key-value notification of the estimate as it stands
ObserveEstimate ==
    /\ Commit(NotifyProgress(Widget, estimatedProgress),
              Delivered(kvoObserver, "observeValueForKeyPath_ofObject_change_context_"),
              None)
    /\ UNCHANGED <<wkvAlive, navigationDelegate, kvoObserver, engineVars>>

ProgressSpec == ProgressInit /\ [][ObserveEstimate]_vars

(***************************************************************************)
(* The history read by the properties                                      *)
(***************************************************************************)
IsStartOrFinish(e) == e.sig \in {"loadStarted", "loadFinished"}

\* the position of the last loadStarted/loadFinished before position j, or 0
LastStartOrFinish(tr, j) ==
    LET S == {i \in 1..(j - 1) : IsStartOrFinish(tr[i])}
    IN  IF S = {} THEN 0 ELSE CHOOSE i \in S : \A k \in S : k <= i

\* position j of the history lies inside a navigation: after a loadStarted
\* and before the loadFinished that follows it
InsideNavigation(tr, j) ==
    /\ LastStartOrFinish(tr, j) # 0
    /\ tr[LastStartOrFinish(tr, j)].sig = "loadStarted"

RelayMethods ==
    {"webView_didStartProvisionalNavigation_", "webView_didFinishNavigation_",
     "webView_didFailNavigation_withError_",
     "webView_didFailProvisionalNavigation_withError_",
     "observeValueForKeyPath_ofObject_change_context_"}

(***************************************************************************)
(* C1: over the whole emission trace loadStarted and loadFinished strictly *)
(* alternate, beginning with loadStarted, for any sequence of load(),      *)
(* stop() and native navigation callbacks.                                 *)
(***************************************************************************)
C1_StartFinishAlternate ==
    LET sf == SelectSeq(trace, IsStartOrFinish)
    IN  \A i \in 1..Len(sf) :
            sf[i].sig = IF i % 2 = 1 THEN "loadStarted" ELSE "loadFinished"

(***************************************************************************)
(* C2: stop() called inside a navigation (after its loadStarted, before    *)
(* its loadFinished) emits loadFinished(false) before it returns, and      *)
(* after that emission no loadProgress is emitted until the next           *)
(* loadStarted, also when stop() runs in a slot of loadStarted.            *)
(***************************************************************************)
C2_StopSilencesProgress ==
    /\ lastCall.op = "stop" => lastCall.emitted = <<loadFinished(FALSE, "stop")>>
    /\ \A i \in 1..Len(trace) :
           ( /\ trace[i].sig = "loadFinished"
             /\ trace[i].by = "stop"
             /\ InsideNavigation(trace, i) )
           => \A j \in (i + 1)..Len(trace) :
                  trace[j].sig = "loadProgress"
                  => \E k \in (i + 1)..(j - 1) : trace[k].sig = "loadStarted"

(***************************************************************************)
(* C3: every loadProgress emission lies between a loadStarted emission and *)
(* the loadFinished emission that follows it: none before the first        *)
(* loadStarted, none after a loadFinished until the next loadStarted.      *)
(***************************************************************************)
C3_ProgressInsideNavigation ==
    \A j \in 1..Len(trace) :
        trace[j].sig = "loadProgress" => InsideNavigation(trace, j)

(***************************************************************************)
(* C4: once closeEvent has unregistered the observer and cleared the       *)
(* delegate, the widget emits nothing: a callback of the Relay Delegate,   *)
(* invoked directly after the detachment, emits no signal.                 *)
(***************************************************************************)
C4_SilentAfterTeardown ==
    [][(Detached /\ lastCall'.op \in RelayMethods)
       => lastCall'.emitted = <<>> /\ trace' = trace]_vars

(***************************************************************************)
(* C5: load() of an address that does not parse into a native URL returns  *)
(* without raising, calls no method of the engine, emits no signal and     *)
(* leaves the gate and the engine as they were.                            *)
(***************************************************************************)
C5_MalformedLoadDoesNothing ==
    [][(lastCall'.op = "load" /\ URLWithString(lastCall'.arg) = None)
       => /\ lastCall'.raised = "none"
          /\ lastCall'.native = <<>>
          /\ lastCall'.emitted = <<>>
          /\ UNCHANGED <<_should_emit_progress, trace, unfinished, engineVars,
                         navigationDelegate, kvoObserver, wkvAlive>>]_vars

\* a malformed address arrives while the gate is armed inside a navigation
C5_Witness ==
    /\ lastCall.op = "load"
    /\ URLWithString(lastCall.arg) = None
    /\ lastCall.stderr = "Error: invalid url"
    /\ _should_emit_progress
    /\ nav = "provisional"
    /\ trace # <<>>

(***************************************************************************)
(* C6: with the widget destroyed, each callback of the Relay Delegate      *)
(* returns normally: it raises nothing and emits nothing.                  *)
(***************************************************************************)
C6_DeadRelayIsNoOp ==
    (~wkvAlive /\ lastCall.op \in RelayMethods)
    => lastCall.raised = "none" /\ lastCall.emitted = <<>>

(***************************************************************************)
(* C7: the widget is never destroyed while the engine still has the Relay  *)
(* Delegate registered as progress observer or navigation delegate.        *)
(***************************************************************************)
C7_DetachedBeforeDestroyed == ~wkvAlive => Detached

(***************************************************************************)
(* C8: with the engine delivering a terminal notification for every        *)
(* navigation it started, the loadStarted emitted for a navigation the     *)
(* engine started is eventually followed by a loadFinished while the       *)
(* widget exists, also when stop() or closeEvent occurs while the          *)
(* navigation is in flight.                                                *)
(***************************************************************************)
C8_StartedLeadsToFinished ==
    ( /\ lastCall.op = "webView_didStartProvisionalNavigation_"
      /\ lastCall.arg = None
      /\ unfinished
      /\ wkvAlive )
    ~> (~unfinished \/ ~wkvAlive)

C10_ProgressNonDecreasing ==
    \A i \in 1..Len(trace) : \A j \in (i + 1)..Len(trace) :
        ( /\ trace[i].sig = "loadProgress"
          /\ trace[j].sig = "loadProgress"
          /\ InsideNavigation(trace, i)
          /\ \A k \in (i + 1)..(j - 1) : trace[k].sig # "loadFinished" )
        => trace[i].percent <= trace[j].percent

(***************************************************************************)
(* C11: the payload of every loadFinished is determined by its cause       *)
(* alone: true exactly when the native successful-finish notification      *)
(* caused it, false for a committed failure, a provisional failure and     *)
(* stop(), whatever the failure's error is. No other operation emits       *)
(* loadFinished.                                                           *)
(***************************************************************************)
C11_PayloadByCause ==
    /\ \A i \in 1..Len(lastCall.emitted) :
         lastCall.emitted[i].sig = "loadFinished" =>
           /\ lastCall.op \in {"webView_didFinishNavigation_",
                               "webView_didFailNavigation_withError_",
                               "webView_didFailProvisionalNavigation_withError_",
                               "webView_didStartProvisionalNavigation_", "stop"}
           /\ lastCall.emitted[i].ok = (lastCall.op = "webView_didFinishNavigation_")
    /\ \A i \in 1..Len(trace) :
         trace[i].sig = "loadFinished" => trace[i].ok = (trace[i].by = "finish")

\* a timed-out navigation reports false after an earlier navigation reported true
C11_Witness ==
    /\ lastCall.op = "webView_didFailNavigation_withError_"
    /\ lastCall.arg = <<"NSURLErrorTimedOut">>
    /\ lastCall.emitted = <<loadFinished(FALSE, "fail")>>
    /\ \E i \in 1..Len(trace) : trace[i] = loadFinished(TRUE, "finish")

(***************************************************************************)
(* C12: a call on the Settings or Profile proxy (setAttribute,             *)
(* setHttpUserAgent, setProperty, each on a proxy obtained from settings() *)
(* or page().profile()) raises nothing, calls nothing on the engine, emits *)
(* nothing, and leaves the gate, the registrations, the engine and the     *)
(* emission history as they were. lastCall, the one variable such a step   *)
(* changes, is read by no operation, so what follows is what would have    *)
(* followed without the call.                                              *)
(***************************************************************************)
ProxyMethods == {"setAttribute", "setHttpUserAgent", "setProperty"}

C12_ProxyCallsChangeNothing ==
    [][lastCall'.op \in ProxyMethods
         => /\ lastCall'.raised = "none"
            /\ lastCall'.native = <<>>
            /\ lastCall'.emitted = <<>>
            /\ UNCHANGED <<_should_emit_progress, wkvAlive, navigationDelegate,
                           kvoObserver, engineVars, trace, unfinished>>]_vars

\* setAttribute called in the middle of a navigation, the gate armed
C12_Witness ==
    /\ lastCall.op = "setAttribute"
    /\ lastCall.stderr = "Warning: QWebKitSettings.setAttribute is not implemented"
    /\ _should_emit_progress
    /\ nav = "committed"
    /\ kvoObserver

(***************************************************************************)
(* C13: reload(), forward() and back() pass the call to the engine and do  *)
(* nothing else, whether the gate is armed or not and whether a navigation *)
(* is in flight or not: the gate is as it was, no loadStarted and no       *)
(* loadFinished is emitted, and the method emits nothing itself; the one   *)
(* signal there can be in the course of the call is the loadProgress of    *)
(* the key-value notification the engine makes when the request resets     *)
(* its estimate, relayed while the gate is armed.                          *)
(***************************************************************************)
PassThroughs == {"reload", "forward", "back"}

C13_PassThroughsKeepGate ==
    [][lastCall'.op \in PassThroughs
         => /\ _should_emit_progress' = _should_emit_progress
            /\ unfinished' = unfinished
            /\ lastCall'.raised = "none"
            /\ Len(lastCall'.native) = 1
            /\ \A after \in {reload(Widget), forward(Widget), back(Widget)} :
                 after.emitted = <<>> /\ after.gate = _should_emit_progress
            /\ \/ lastCall'.emitted = <<>>
               \/ /\ lastCall'.emitted = <<loadProgress(IntPercent(estimatedProgress'))>>
                  /\ estimatedProgress' # estimatedProgress
                  /\ _should_emit_progress /\ kvoObserver]_vars

\* back() called with the gate armed and a navigation in flight, which it cancels
C13_Witness ==
    /\ lastCall.op = "back"
    /\ lastCall.native = <<"goBack">>
    /\ _should_emit_progress
    /\ nav = "pending"
    /\ owed = "failProvisional"

(***************************************************************************)
(* C14: url(), on the widget or on its Page proxy, returns the default     *)
(* empty QUrl and raises nothing when the engine has no URL; so does the   *)
(* Page proxy's url() when the WKWebView it refers to weakly is gone.      *)
(***************************************************************************)
C14_UrlWithoutUrlIsEmpty ==
    lastCall.op \in {"url", "page.url"}
      => /\ lastCall.raised = "none"
         /\ (URL = None \/ ~wvAlive) => lastCall.ret = EmptyQUrl

\* the widget's url() before anything was loaded
C14_Witness ==
    /\ lastCall.op = "url"
    /\ URL = None
    /\ lastCall.ret = EmptyQUrl
    /\ lastCall.raised = "none"

(***************************************************************************)
(* C15: runJavaScript hands the engine one completion handler and calls    *)
(* nothing itself; when the evaluation completes, a callback that was      *)
(* given is called exactly once, with the result when the engine reports   *)
(* no error and with the error otherwise, and with no callback given the   *)
(* completion calls nothing and raises nothing.                            *)
(***************************************************************************)
C15_CallbackOnceWithResultOrError ==
    /\ [](lastCall.op = "completionHandler" =>
            LET callback == lastCall.arg[1]
                result == lastCall.arg[2]
                error == lastCall.arg[3]
            IN  /\ lastCall.raised = "none"
                /\ lastCall.called =
                     IF callback = None THEN <<>>
                     ELSE IF error = None THEN << <<callback, result>> >>
                     ELSE << <<callback, error>> >>)
    /\ [][/\ lastCall'.op = "runJavaScript" =>
               /\ lastCall'.called = <<>> /\ lastCall'.raised = "none"
               /\ evaluations' = IF wvAlive THEN Append(evaluations, lastCall'.arg)
                                 ELSE evaluations
          /\ lastCall'.op = "completionHandler" =>
               /\ Len(evaluations') = Len(evaluations) - 1
               /\ \E i \in 1..Len(evaluations) : evaluations[i] = lastCall'.arg[1]]_vars

\* an evaluation that failed completes: the callback is called with the error
C15_Witness ==
    /\ lastCall.op = "completionHandler"
    /\ lastCall.arg = << <<"callback">>, None, <<"WKErrorJavaScriptExceptionOccurred">> >>
    /\ lastCall.called =
         << << <<"callback">>, <<"WKErrorJavaScriptExceptionOccurred">> >> >>

C17_DisarmedBeforeFinished ==
    /\ ~lastCall.armedAtFinished
    /\ \A error \in Errors :
         \A after \in {_finished_navigation(Widget), _failed_navigation(Widget, error),
                       _failed_provisional_navigation(Widget, error), stop(Widget)} :
             ~after.armedAtFinished /\ ~after.gate

\* a navigation that started and made progress, so that the gate was armed, finishes
C17_Witness ==
    /\ lastCall.op = "webView_didFinishNavigation_"
    /\ trace = <<loadStarted, loadProgress(IntPercent(PDenom)),
                 loadFinished(TRUE, "finish")>>
    /\ ~lastCall.armedAtFinished
    /\ ~_should_emit_progress

(***************************************************************************)
(* C18: every call of stop() emits exactly one loadFinished(false) and     *)
(* leaves the gate disarmed, whether or not a navigation is in flight,     *)
(* loadStarted was ever emitted, or loadFinished was already emitted for   *)
(* the navigation.                                                         *)
(***************************************************************************)
C18_StopAlwaysEmitsFinished ==
    /\ stop(Widget).emitted = <<loadFinished(FALSE, "stop")>>
    /\ ~stop(Widget).gate
    /\ LET inSlot == stop(Emit(Widget, loadStarted))
       IN  inSlot.emitted = <<loadStarted, loadFinished(FALSE, "stop")>> /\ ~inSlot.gate
    /\ lastCall.op = "stop" =>
         /\ lastCall.emitted = <<loadFinished(FALSE, "stop")>>
         /\ lastCall.raised = "none"
         /\ ~_should_emit_progress

\* stop() called on a widget that never loaded anything
C18_Witness ==
    /\ lastCall.op = "stop"
    /\ nav = "idle"
    /\ URL = None
    /\ trace = <<loadFinished(FALSE, "stop")>>

(***************************************************************************)
(* C19: whenever closeEvent asks the engine to remove the progress         *)
(* observer, the Relay Delegate is registered as its observer: the         *)
(* observer is registered once, at construction, and removed at most once, *)
(* so a second close event removes nothing and raises nothing.             *)
(***************************************************************************)
C19_RemovesOnlyRegisteredObserver ==
    [][lastCall'.op = "closeEvent"
         => /\ lastCall'.native[1] = "removeObserver_forKeyPath_" => kvoObserver
            /\ lastCall'.raised = "none"]_vars

====
